---------------------------- MODULE Spec2Model ----------------------------
(***************************************************************************)
(* Verification model of src/src/npc_ephys/openephys.py (npc_ephys):       *)
(* the partial .npy reader, the Open Ephys folder scanner, the oebin       *)
(* merge, device timing on the PXI clock and timing on the sync clock.     *)
(*                                                                         *)
(* Each component has its own specification (SpecNpy, SpecPxi, SpecTopo,   *)
(* SpecMerge, SpecSync); the variables of the other components stay at     *)
(* their idle values.                                                      *)
(***************************************************************************)
EXTENDS Integers, Sequences, FiniteSets, TLC

VARIABLES
    \* ---- read_array_range_from_npy ----
    npy_file,       \* bytes of the .npy object (sequence of 0..255)
    npy_array,      \* the array that was written into npy_file (np.load's answer)
    npy_major,      \* major version the object was written with
    npy_range,      \* the _range argument of the last call (a slice), or None
    npy_result,     \* what the last call returned or raised
    \* ---- get_ephys_timing_on_pxi (one recording_dir) ----
    pxi_dir,        \* recording_dir, as path components
    pxi_lines,      \* the device lines of sync_messages.txt, in file order
    pxi_fs,         \* per device label: what is on disk under recording_dir
    pxi_listing,    \* names in the ecephys_compressed folder
    pxi_filter,     \* only_devices_including (a string or None)
    pxi_pos,        \* how many devices the generator's for loop has taken
    pxi_gen,        \* "suspended" or "closed"
    pxi_out,        \* the values yielded so far
    pxi_last,       \* outcome of the last next(): yield, raise, StopIteration
    \* ---- folder scanning (get_single_oebin_path and companions) ----
    topo_recs,      \* per recording folder: is it there, and the size of its data
    topo_order,     \* the order in which rglob meets the recording folders
    topo_call,      \* the last call: its name and path argument
    topo_result,    \* what the last call returned or raised
    \* ---- get_merged_oebin_file ----
    merge_data,     \* per structure.oebin path: its parsed JSON
    merge_settings, \* per settings.xml path: the file (or that it is missing)
    merge_call,     \* the last call: paths and exclude_probe_names
    merge_result,   \* what the last call returned or raised
    \* ---- get_ephys_timing_on_sync ----
    sync_devices,   \* the devices argument: EphysTimingInfoOnPXI values
    sync_pos,       \* how many devices the generator's for loop has taken
    sync_gen,       \* "suspended" or "closed"
    sync_est,       \* what the barcode estimator did for each device taken
    sync_out,       \* the EphysTimingInfoOnSync values yielded so far
    sync_last,      \* outcome of the last next(): yield, raise, StopIteration
    sync_retry,     \* TRUE when this generator comes from a call made after a failure
    \* ---- validate_recording_folder ----
    val_dir,        \* recording_path, as path components
    val_lines,      \* the device lines of its sync_messages.txt
    val_fs,         \* per device label: what is on disk under recording_path
    val_listing,    \* names in the ecephys_compressed folder
    val_oebin,      \* folder_name of each entry of structure.oebin["continuous"]
    val_sync,       \* TRUE when sync_path_or_dataset is supplied
    val_idx,        \* how many entries the for loop has completed
    val_pc,         \* "find", "found", "returned" or "raised"
    val_info,       \* info of the entry in hand, or None
    val_log,        \* the next() calls made so far and how each ended
    val_result      \* None while running; then the return or the exception

npyVars == <<npy_file, npy_array, npy_major, npy_range, npy_result>>
pxiVars == <<pxi_dir, pxi_lines, pxi_fs, pxi_listing, pxi_filter, pxi_pos,
             pxi_gen, pxi_out, pxi_last>>

topoVars == <<topo_recs, topo_order, topo_call, topo_result>>
mergeVars == <<merge_data, merge_settings, merge_call, merge_result>>

syncVars == <<sync_devices, sync_pos, sync_gen, sync_est, sync_out, sync_last,
              sync_retry>>

valVars == <<val_dir, val_lines, val_fs, val_listing, val_oebin, val_sync,
             val_idx, val_pc, val_info, val_log, val_result>>

vars == <<npyVars, pxiVars, topoVars, mergeVars, syncVars, valVars>>

\* The variables each component leaves alone
npyOthers == <<pxiVars, topoVars, mergeVars, syncVars, valVars>>
pxiOthers == <<npyVars, topoVars, mergeVars, syncVars, valVars>>
topoOthers == <<npyVars, pxiVars, mergeVars, syncVars, valVars>>
mergeOthers == <<npyVars, pxiVars, topoVars, syncVars, valVars>>
syncOthers == <<npyVars, pxiVars, topoVars, mergeVars, valVars>>
valOthers == <<npyVars, pxiVars, topoVars, mergeVars, syncVars>>

None == [kind |-> "None"]

(***************************************************************************)
(* Bounds                                                                  *)
(***************************************************************************)
MaxLen == 3          \* longest array stored in a .npy object
MaxPad == 2          \* most padding spaces at the end of a .npy header
MaxLines == 2        \* most device lines in sync_messages.txt
MaxSize == 2         \* largest size of the data of one recording folder
MaxPaths == 2        \* most paths in one call of get_merged_oebin_file
MaxDevices == 2      \* most devices passed to get_ephys_timing_on_sync

(***************************************************************************)
(* Generic helpers                                                         *)
(***************************************************************************)
SeqsUpTo(S, n) == UNION {[1..k -> S] : k \in 0..n}

RECURSIVE Flatten(_)
Flatten(ss) == IF ss = <<>> THEN <<>> ELSE Head(ss) \o Flatten(Tail(ss))

\* Strings that the code searches are sequences of one-character strings.
\* str.lower()
LowerChar(c) ==
    CASE c = "A" -> "a"
      [] c = "L" -> "l"
      [] c = "B" -> "b"
      [] c = "P" -> "p"
      [] OTHER -> c
Lower(s) == [k \in 1..Len(s) |-> LowerChar(s[k])]

\* needle in hay
Contains(needle, hay) ==
    \E off \in 0..(Len(hay) - Len(needle)) :
        \A k \in 1..Len(needle) : hay[off + k] = needle[k]

(***************************************************************************)
(* The .npy container (numpy format 1.0 / 2.0 / 3.0)                       *)
(***************************************************************************)
\* b"\x93NUMPY"
NpyMagic == <<147, 78, 85, 77, 80, 89>>

\* int.to_bytes(n, width, "little")
RECURSIVE ToBytesLittle(_, _)
ToBytesLittle(n, width) ==
    IF width = 0 THEN <<>> ELSE <<n % 256>> \o ToBytesLittle(n \div 256, width - 1)

\* int.from_bytes(bs, "little")
RECURSIVE FromBytesLittle(_)
FromBytesLittle(bs) ==
    IF bs = <<>> THEN 0 ELSE Head(bs) + 256 * FromBytesLittle(Tail(bs))

\* The dtypes of the model: "u1" and "u2" (unsigned, 1 and 2 bytes, little
\* endian), written in the header as the two characters 'u' and the size digit.
Itemsizes == {1, 2}
DescrBytes(itemsize) == <<117, 48 + itemsize>>

\* np.dtype(descr).itemsize
DtypeItemsize(descr) == descr[2] - 48

\* The header text: descr, then the shape tuple "(d1,d2,...)", padded with
\* spaces and ended by a newline.
RECURSIVE ShapeDigits(_)
ShapeDigits(shape) ==
    IF shape = <<>> THEN <<>>
    ELSE <<48 + Head(shape), 44>> \o ShapeDigits(Tail(shape))

HeaderText(itemsize, shape, pad) ==
    DescrBytes(itemsize) \o <<40>> \o ShapeDigits(shape) \o <<41>>
        \o [k \in 1..pad |-> 32] \o <<10>>

\* np.save: magic, version, little-endian header length (2 bytes for
\* version 1, 4 bytes for version 2 and 3), header, element bytes.
NpySave(major, itemsize, shape, pad, arr) ==
    LET header == HeaderText(itemsize, shape, pad)
    IN  NpyMagic \o <<major, 0>>
            \o ToBytesLittle(Len(header), IF major = 1 THEN 2 ELSE 4)
            \o header
            \o Flatten([k \in 1..Len(arr) |-> ToBytesLittle(arr[k], itemsize)])

\* path.fs.read_bytes(path, start=s, end=e): bytes s..e-1, cut at end of file
ReadBytes(file, s, e) ==
    LET stop == IF e > Len(file) THEN Len(file) ELSE e
    IN  IF s >= stop THEN <<>> ELSE SubSeq(file, s + 1, stop)

\* header_bytes.decode("utf-8").strip("\n").strip()
RECURSIVE StripRight(_)
StripRight(bs) ==
    IF bs # <<>> /\ bs[Len(bs)] \in {10, 32}
    THEN StripRight(SubSeq(bs, 1, Len(bs) - 1))
    ELSE bs

\* eval(...) of the header text: the dictionary's "descr" and "shape"
EvalHeader(bs) ==
    LET text == StripRight(bs)
        inner == SubSeq(text, 4, Len(text) - 1)
        digits == SelectSeq(inner, LAMBDA b : b # 44)
    IN  [descr |-> SubSeq(text, 1, 2),
         shape |-> [k \in 1..Len(digits) |-> digits[k] - 48]]

\* np.frombuffer(buf, dtype)
Frombuffer(buf, itemsize) ==
    IF Len(buf) % itemsize # 0
    THEN [kind |-> "ValueError"]
    ELSE [kind |-> "array",
          value |-> [k \in 1..(Len(buf) \div itemsize) |->
                        FromBytesLittle(SubSeq(buf, (k - 1) * itemsize + 1,
                                               k * itemsize))]]

\* Faulty variant: the header-length field is taken to be 2 bytes wide for every version.
read_array_range_from_npy_width2(file, start, stop) ==
    LET header_len_stop == 10
        header_len == FromBytesLittle(ReadBytes(file, 8, header_len_stop))
        array_start == header_len_stop + header_len
        header == EvalHeader(ReadBytes(file, header_len_stop, array_start))
        num_bytes_per_value == DtypeItemsize(header.descr)
    IN  IF Len(header.shape) # 1
        THEN [kind |-> "AssertionError"]
        ELSE Frombuffer(ReadBytes(file,
                                  array_start + start * num_bytes_per_value,
                                  array_start + stop * num_bytes_per_value),
                        num_bytes_per_value)

\* read_array_range_from_npy(path, slice(start, stop))
read_array_range_from_npy(file, start, stop) ==
    LET ver_major == FromBytesLittle(ReadBytes(file, 6, 7))
        header_len_stop == IF ver_major = 1 THEN 10 ELSE 12
        header_len == FromBytesLittle(ReadBytes(file, 8, header_len_stop))
        array_start == header_len_stop + header_len
        header == EvalHeader(ReadBytes(file, header_len_stop, array_start))
        num_bytes_per_value == DtypeItemsize(header.descr)
    IN  IF Len(header.shape) # 1
        THEN [kind |-> "AssertionError"]
        ELSE Frombuffer(ReadBytes(file,
                                  array_start + start * num_bytes_per_value,
                                  array_start + stop * num_bytes_per_value),
                        num_bytes_per_value)

\* Element values that fit the dtype
NpyValues(itemsize) == IF itemsize = 1 THEN {0, 7, 255} ELSE {1, 256, 65535}

\* The shapes np.save writes for the arrays of the model: 1-D of n elements,
\* or 2-D of n rows and 1 column.
NpyShapes(n) == {<<n>>, <<n, 1>>}

NpyIdle ==
    /\ npy_file = <<>>
    /\ npy_array = <<>>
    /\ npy_major = 0
    /\ npy_range = None
    /\ npy_result = None

NpyInit ==
    \E major \in {1, 2, 3}, itemsize \in Itemsizes, pad \in 0..MaxPad :
        \E arr \in SeqsUpTo(NpyValues(itemsize), MaxLen) :
            \E shape \in NpyShapes(Len(arr)) :
                /\ npy_file = NpySave(major, itemsize, shape, pad, arr)
                /\ npy_array = [itemsize |-> itemsize, shape |-> shape,
                                pad |-> pad, value |-> arr]
                /\ npy_major = major
                /\ npy_range = None
                /\ npy_result = None

\* A call read_array_range_from_npy(path, slice(i, j)) with 0 <= i <= j <= len
ReadRange ==
    \E i \in 0..Len(npy_array.value) : \E j \in i..Len(npy_array.value) :
        /\ npy_range' = [kind |-> "slice", start |-> i, stop |-> j]
        /\ npy_result' = read_array_range_from_npy(npy_file, i, j)
        /\ UNCHANGED <<npy_file, npy_array, npy_major>>
        /\ UNCHANGED npyOthers

\* A call read_array_range_from_npy(path, i) with an int: slice(i, i + 1)
ReadElement ==
    \E i \in 0..(Len(npy_array.value) - 1) :
        /\ npy_range' = [kind |-> "slice", start |-> i, stop |-> i + 1]
        /\ npy_result' = read_array_range_from_npy(npy_file, i, i + 1)
        /\ UNCHANGED <<npy_file, npy_array, npy_major>>
        /\ UNCHANGED npyOthers

NpyNext == ReadRange \/ ReadElement


(***************************************************************************)
(* get_ephys_timing_on_pxi                                                 *)
(***************************************************************************)
\* Device labels of sync_messages.txt (after label()): "A" and "AL"
DevA == <<"A">>
DevAL == <<"A", "L">>
Labels == {DevA, DevAL}

\* The rate each device is logged with
LogRate(label) == IF label = DevA THEN 30000 ELSE 2500

\* The first element of continuous/<device>/sample_numbers.npy
DiskFirst(label) == IF label = DevA THEN 150 ELSE 12

\* events/<device>/TTL*/sample_numbers.npy and states.npy as np.load gives them
TtlSamples(label) == IF label = DevA THEN <<160, 190, 220>> ELSE <<13, 15, 18>>
TtlStates(label) == <<1, -1, 1>>

\* get_sync_messages_data: a dict comprehension over the device lines; a
\* label met again keeps its place and takes the later line's values.
RECURSIVE SyncMessagesKeys(_)
SyncMessagesKeys(lines) ==
    IF lines = <<>> THEN <<>>
    ELSE LET before == SyncMessagesKeys(SubSeq(lines, 1, Len(lines) - 1))
             label == lines[Len(lines)].label
         IN  IF \E k \in 1..Len(before) : before[k] = label
             THEN before
             ELSE Append(before, label)

SyncMessagesValue(lines, label) ==
    LET last == CHOOSE k \in 1..Len(lines) :
                    /\ lines[k].label = label
                    /\ \A m \in (k + 1)..Len(lines) : lines[m].label # label
    IN  [start |-> lines[last].start, rate |-> lines[last].rate]

\* recording_dir candidates
DirClipped == <<"s3", "ecephys_clipped", "Record Node 102", "experiment1", "recording1">>
DirRaw == <<"A:", "Record Node 102", "experiment1", "recording1">>
DirNoExperiment == <<"s3", "ecephys_clipped", "Record Node 102", "recording1">>
DirNoRecording == <<"s3", "ecephys_clipped", "Record Node 102", "experiment1", "rec">>
DirClippedOld == <<"s3", "ecephys_clipped_old", "Record Node 102", "experiment1", "recording1">>
PxiDirs == {DirClipped, DirRaw, DirNoExperiment, DirNoRecording, DirClippedOld}

\* "ecephys_clipped" in component
HasClipped(c) == c \in {"ecephys_clipped", "ecephys_clipped_old"}
\* component matches experiment\d+ / Record Node \d+ / recording\d+
IsExperiment(c) == c \in {"experiment1"}
IsRecordNode(c) == c \in {"Record Node 102"}
IsRecording(c) == c \in {"recording1"}

\* re.search(r".*(<pattern>)", posix): the last matching component, or None
LastMatch(dir, pattern) ==
    LET Matches(c) == IF pattern = "experiment" THEN IsExperiment(c)
                      ELSE IsRecordNode(c)
    IN  IF \E k \in 1..Len(dir) : Matches(dir[k])
        THEN [kind |-> "match",
              group |-> dir[CHOOSE k \in 1..Len(dir) :
                                /\ Matches(dir[k])
                                /\ \A m \in (k + 1)..Len(dir) : ~Matches(dir[m])]]
        ELSE None

\* The name f"{experiment}_{record_node}#{device}.zarr"
CompressedName(experiment, record_node, device) ==
    [experiment |-> experiment, record_node |-> record_node, device |-> device]

\* clipped_path_to_compressed(recording_dir / "continuous" / device).
\* The path is dir/continuous/device; device_re matches when the path ends
\* <record_node>/<experiment>/recording<N>/continuous/<device>.
clipped_path_to_compressed(dir, device, listing) ==
    IF ~\E k \in 1..Len(dir) : HasClipped(dir[k])
    THEN [kind |-> "raise", exc |-> "ValueError"]
    ELSE
    LET experiment_re == LastMatch(dir, "experiment")
        record_node_re == LastMatch(dir, "record_node")
    IN  IF experiment_re = None \/ record_node_re = None
        THEN [kind |-> "raise", exc |-> "ValueError"]
        ELSE
        LET n == Len(dir)
            device_re ==
                /\ n >= 3
                /\ dir[n - 2] = record_node_re.group
                /\ dir[n - 1] = experiment_re.group
                /\ IsRecording(dir[n])
            compressed_name ==
                CompressedName(experiment_re.group, record_node_re.group, device)
        IN  IF ~device_re
            THEN [kind |-> "raise", exc |-> "ValueError"]
            \* next(p for p in path.parents if p.name == "ecephys_clipped")
            ELSE IF ~\E k \in 1..Len(dir) : dir[k] = "ecephys_clipped"
            THEN [kind |-> "raise", exc |-> "StopIteration"]
            ELSE IF compressed_name \notin listing
            THEN [kind |-> "raise", exc |-> "FileNotFoundError"]
            ELSE [kind |-> "return", value |-> compressed_name]

\* continuous/<device>/sample_numbers.npy, whose first element is DiskFirst
SampleNumbersNpy(label) == NpySave(1, 2, <<2>>, 0, <<DiskFirst(label), DiskFirst(label) + 1>>)

\* Faulty variant: a generator that has raised can still be resumed
GeneratorAfter_resumable(outcome) == "suspended"

\* The state of a generator after next(): suspended at the yield it reached,
\* closed once it has returned or an exception has left it.
GeneratorAfter(outcome) == IF outcome = "yield" THEN "suspended" ELSE "closed"

\* An exception that leaves the body of a generator: StopIteration becomes
\* RuntimeError (PEP 479), every other exception passes unchanged.
GeneratorRaises(exc) == IF exc = "StopIteration" THEN "RuntimeError" ELSE exc

\* Faulty variant: the first sample of the acquisition log is used
PxiLoopBody_log_start(dir, lines, fs, listing, filter, device) ==
    IF filter # None /\ filter.value # <<>>
          /\ ~Contains(Lower(filter.value), Lower(device))
    THEN [kind |-> "continue"]
    ELSE IF ~fs[device].continuous
    THEN [kind |-> "continue"]
    \* ttl = next(events.glob("TTL*"))
    ELSE IF ~fs[device].ttl
    THEN [kind |-> "raise", exc |-> GeneratorRaises("StopIteration")]
    ELSE
    LET first_sample_from_sync_messages == SyncMessagesValue(lines, device).start
        first_sample_on_ephys_clock == first_sample_from_sync_messages
        sampling_rate == SyncMessagesValue(lines, device).rate
        ttl_sample_numbers ==
            [k \in 1..Len(TtlSamples(device)) |->
                TtlSamples(device)[k] - first_sample_on_ephys_clock]
        found == clipped_path_to_compressed(dir, device, listing)
    IN  \* try: ... except ValueError: compressed = None
        IF found.kind = "raise" /\ found.exc # "ValueError"
        THEN [kind |-> "raise", exc |-> GeneratorRaises(found.exc)]
        ELSE [kind |-> "yield",
              value |-> [name |-> device,
                         compressed |-> IF found.kind = "raise"
                                        THEN None ELSE found,
                         ttl_sample_numbers |-> ttl_sample_numbers,
                         ttl_states |-> TtlStates(device),
                         start_sample |-> first_sample_on_ephys_clock,
                         sampling_rate |-> sampling_rate]]

\* One pass of the loop "for device in device_to_sync_messages_data":
\* continue, yield a value, or raise.
PxiLoopBody(dir, lines, fs, listing, filter, device) ==
    IF filter # None /\ filter.value # <<>>
          /\ ~Contains(Lower(filter.value), Lower(device))
    THEN [kind |-> "continue"]
    ELSE IF ~fs[device].continuous
    THEN [kind |-> "continue"]
    \* ttl = next(events.glob("TTL*"))
    ELSE IF ~fs[device].ttl
    THEN [kind |-> "raise", exc |-> GeneratorRaises("StopIteration")]
    ELSE
    LET first_sample_from_continuous_sample_numbers ==
            read_array_range_from_npy(SampleNumbersNpy(device), 0, 1).value[1]
        first_sample_on_ephys_clock == first_sample_from_continuous_sample_numbers
        sampling_rate == SyncMessagesValue(lines, device).rate
        ttl_sample_numbers ==
            [k \in 1..Len(TtlSamples(device)) |->
                TtlSamples(device)[k] - first_sample_on_ephys_clock]
        found == clipped_path_to_compressed(dir, device, listing)
    IN  \* try: ... except ValueError: compressed = None
        IF found.kind = "raise" /\ found.exc # "ValueError"
        THEN [kind |-> "raise", exc |-> GeneratorRaises(found.exc)]
        ELSE [kind |-> "yield",
              value |-> [name |-> device,
                         compressed |-> IF found.kind = "raise"
                                        THEN None ELSE found,
                         ttl_sample_numbers |-> ttl_sample_numbers,
                         ttl_states |-> TtlStates(device),
                         start_sample |-> first_sample_on_ephys_clock,
                         sampling_rate |-> sampling_rate]]

\* The generator resumed with pos devices already taken: it runs the loop
\* until a yield, a raise, or the end of the devices.
RECURSIVE get_ephys_timing_on_pxi(_, _, _, _, _, _)
get_ephys_timing_on_pxi(dir, lines, fs, listing, filter, pos) ==
    LET devices == SyncMessagesKeys(lines)
    IN  IF pos >= Len(devices)
        THEN [kind |-> "StopIteration", pos |-> pos]
        ELSE LET r == PxiLoopBody(dir, lines, fs, listing, filter, devices[pos + 1])
             IN  IF r.kind = "continue"
                 THEN get_ephys_timing_on_pxi(dir, lines, fs, listing, filter, pos + 1)
                 ELSE [kind |-> r.kind, pos |-> pos + 1,
                       value |-> IF r.kind = "yield" THEN r.value ELSE None,
                       exc |-> IF r.kind = "raise" THEN r.exc ELSE "None"]

PxiLines == [label : Labels, start : {12, 150}, rate : {2500, 30000}]

PxiListings ==
    LET name(d) == CompressedName("experiment1", "Record Node 102", d)
    IN  {{}, {name(DevA)}, {name(DevA), name(DevAL)}}

PxiFilters == {None, [kind |-> "str", value |-> <<"a">>],
               [kind |-> "str", value |-> <<"A", "L">>]}

PxiIdle ==
    /\ pxi_dir = <<>>
    /\ pxi_lines = <<>>
    /\ pxi_fs = <<>>
    /\ pxi_listing = {}
    /\ pxi_filter = None
    /\ pxi_pos = 0
    /\ pxi_gen = "closed"
    /\ pxi_out = <<>>
    /\ pxi_last = None

PxiInit ==
    /\ pxi_dir \in PxiDirs
    /\ pxi_lines \in {ls \in SeqsUpTo(PxiLines, MaxLines) :
                        \A k \in 1..Len(ls) : ls[k].rate = LogRate(ls[k].label)}
    /\ pxi_fs \in [Labels -> [continuous : BOOLEAN, ttl : BOOLEAN]]
    /\ pxi_listing \in PxiListings
    /\ pxi_filter \in PxiFilters
    /\ pxi_pos = 0
    /\ pxi_gen = "suspended"
    /\ pxi_out = <<>>
    /\ pxi_last = None

\* next(generator)
PxiNext ==
    /\ IF pxi_gen = "closed"
       THEN /\ pxi_last' = [kind |-> "StopIteration"]
            /\ UNCHANGED <<pxi_pos, pxi_gen, pxi_out>>
       ELSE LET r == get_ephys_timing_on_pxi(pxi_dir, pxi_lines, pxi_fs,
                                             pxi_listing, pxi_filter, pxi_pos)
            IN  /\ pxi_pos' = r.pos
                /\ pxi_gen' = GeneratorAfter(r.kind)
                /\ pxi_out' = IF r.kind = "yield"
                              THEN Append(pxi_out, r.value) ELSE pxi_out
                /\ pxi_last' = CASE r.kind = "yield" -> [kind |-> "yield"]
                                 [] r.kind = "raise" ->
                                        [kind |-> "raise", exc |-> r.exc]
                                 [] OTHER -> [kind |-> "StopIteration"]
    /\ UNCHANGED <<pxi_dir, pxi_lines, pxi_fs, pxi_listing, pxi_filter>>
    /\ UNCHANGED pxiOthers


(***************************************************************************)
(* Folder scanning: get_single_oebin_path, get_superfluous_oebin_paths,    *)
(* get_filtered_ephys_paths_relative_to_record_node_parents                *)
(***************************************************************************)
\* The tree: top/<Record Node N>/experiment1/<recordingK>/structure.oebin
\* and .../<recordingK>/continuous/ProbeA/continuous.dat
Top == <<"top">>
NodeNames == {"Record Node 101", "Record Node 102"}
NodeDir(n) == Top \o <<n>>
\* The recording folders that may exist: three under the first node, one
\* under the second.
Slots == {<<"Record Node 101", "recording1">>, <<"Record Node 101", "recording2">>,
          <<"Record Node 101", "recording3">>, <<"Record Node 102", "recording1">>}
RecDir(slot) == NodeDir(slot[1]) \o <<"experiment1", slot[2]>>
OebinPath(slot) == RecDir(slot) \o <<"structure.oebin">>
DatPath(slot) == RecDir(slot) \o <<"continuous", "ProbeA", "continuous.dat">>

Parent(path) == SubSeq(path, 1, Len(path) - 1)
\* a in b.parents
IsParentOf(a, b) == Len(a) < Len(b) /\ SubSeq(b, 1, Len(a)) = a

Present(recs) == {slot \in Slots : recs[slot].present}
Files(recs) == {OebinPath(slot) : slot \in Present(recs)}
                   \cup {DatPath(slot) : slot \in Present(recs)}
\* Every file and folder below dir (dir.rglob("*"))
Descendants(recs, dir) ==
    UNION {{SubSeq(f, 1, k) : k \in (Len(dir) + 1)..Len(f)} :
               f \in {g \in Files(recs) : IsParentOf(dir, g)}}

\* path.is_dir(): the top folder and the node folders always exist
IsDir(recs, path) ==
    \/ path = Top
    \/ \E n \in NodeNames : path = NodeDir(n)
    \/ \E f \in Files(recs) : IsParentOf(path, f)

\* npc_io.get_size(dir): the structure.oebin file takes 1, the data its size
RECURSIVE SumSizes(_, _)
SumSizes(recs, slots) ==
    IF slots = {} THEN 0
    ELSE LET slot == CHOOSE x \in slots : TRUE
         IN  1 + recs[slot].size + SumSizes(recs, slots \ {slot})
GetSize(recs, dir) ==
    SumSizes(recs, {slot \in Present(recs) :
                        dir = RecDir(slot) \/ IsParentOf(dir, RecDir(slot))})

\* tuple(path.rglob("structure*.oebin")), in the order rglob meets them
RglobOebin(recs, order, path) ==
    LET under == SelectSeq(order, LAMBDA slot :
                     recs[slot].present /\ IsParentOf(path, OebinPath(slot)))
    IN  [k \in 1..Len(under) |-> OebinPath(under[k])]

\* Faulty variant: dir_sizes.index(min(dir_sizes))
get_single_oebin_path_smallest(recs, order, path) ==
    IF ~IsDir(recs, path)
    THEN [kind |-> "raise", exc |-> "ValueError"]
    ELSE
    LET oebin_paths == RglobOebin(recs, order, path)
        dir_sizes == [k \in 1..Len(oebin_paths) |-> GetSize(recs, Parent(oebin_paths[k]))]
    IN  IF oebin_paths = <<>>
        THEN [kind |-> "raise", exc |-> "FileNotFoundError"]
        ELSE IF Len(oebin_paths) = 1
        THEN [kind |-> "return", value |-> oebin_paths[1]]
        ELSE LET index == CHOOSE k \in 1..Len(dir_sizes) :
                              /\ \A m \in 1..Len(dir_sizes) : dir_sizes[m] >= dir_sizes[k]
                              /\ \A m \in 1..(k - 1) : dir_sizes[m] # dir_sizes[k]
             IN  [kind |-> "return", value |-> oebin_paths[index]]

\* get_single_oebin_path(path)
get_single_oebin_path(recs, order, path) ==
    IF ~IsDir(recs, path)
    THEN [kind |-> "raise", exc |-> "ValueError"]
    ELSE
    LET oebin_paths == RglobOebin(recs, order, path)
        dir_sizes == [k \in 1..Len(oebin_paths) |-> GetSize(recs, Parent(oebin_paths[k]))]
    IN  IF oebin_paths = <<>>
        THEN [kind |-> "raise", exc |-> "FileNotFoundError"]
        ELSE IF Len(oebin_paths) = 1
        THEN [kind |-> "return", value |-> oebin_paths[1]]
        \* dir_sizes.index(max(dir_sizes)): the first index holding the maximum
        ELSE LET index == CHOOSE k \in 1..Len(dir_sizes) :
                              /\ \A m \in 1..Len(dir_sizes) : dir_sizes[m] <= dir_sizes[k]
                              /\ \A m \in 1..(k - 1) : dir_sizes[m] # dir_sizes[k]
             IN  [kind |-> "return", value |-> oebin_paths[index]]

\* get_superfluous_oebin_paths(path); the returned tuple is a set in tuple form
get_superfluous_oebin_paths(recs, order, path) ==
    LET all_oebin_paths == RglobOebin(recs, order, path)
        single == get_single_oebin_path(recs, order, path)
    IN  IF Len(all_oebin_paths) = 1
        THEN [kind |-> "return", value |-> {}]
        ELSE IF single.kind = "raise"
        THEN single
        ELSE [kind |-> "return",
              value |-> {all_oebin_paths[k] : k \in 1..Len(all_oebin_paths)}
                            \ {single.value}]

\* Faulty variant: only the direct children of a superfluous folder are passed over
KeptPaths_children_only(recs, record_node, superfluous_recording_dirs) ==
    {[abs |-> abs_path,
      rel |-> SubSeq(abs_path, Len(record_node), Len(abs_path))] :
        abs_path \in {p \in Descendants(recs, record_node) :
                        ~\E d \in superfluous_recording_dirs : d = Parent(p)}}

\* The pairs one record node contributes: for abs_path in record_node.rglob("*"),
\* skipping the paths that have a superfluous folder among their parents;
\* the second of the pair is abs_path.relative_to(record_node.parent)
KeptPaths(recs, record_node, superfluous_recording_dirs) ==
    {[abs |-> abs_path,
      rel |-> SubSeq(abs_path, Len(record_node), Len(abs_path))] :
        abs_path \in {p \in Descendants(recs, record_node) :
                        ~\E d \in superfluous_recording_dirs : IsParentOf(d, p)}}

\* list(get_filtered_ephys_paths_relative_to_record_node_parents(Top)): the
\* pairs yielded, node by node, until the nodes end or an error is raised.
RECURSIVE get_filtered_ephys_paths(_, _, _)
get_filtered_ephys_paths(recs, order, record_nodes) ==
    IF record_nodes = <<>>
    THEN [yielded |-> {}, exc |-> "None"]
    ELSE
    LET record_node == Head(record_nodes)
        superfluous == get_superfluous_oebin_paths(recs, order, record_node)
    IN  IF superfluous.kind = "raise"
        THEN [yielded |-> {}, exc |-> superfluous.exc]
        ELSE LET rest == get_filtered_ephys_paths(recs, order, Tail(record_nodes))
                 superfluous_recording_dirs == {Parent(o) : o \in superfluous.value}
             IN  [yielded |-> KeptPaths(recs, record_node, superfluous_recording_dirs)
                                  \cup rest.yielded,
                  exc |-> rest.exc]

\* toplevel_ephys_path.rglob("Record Node*"): the node folders, in the order
\* rglob meets their recording folders (a node without any comes last)
RglobRecordNodes(order) ==
    LET first == order[1][1]
        other == CHOOSE n \in NodeNames : n # first
    IN  <<NodeDir(first), NodeDir(other)>>

\* The paths the calls of the model are made with
TopoPaths == {Top} \cup {NodeDir(n) : n \in NodeNames}
                 \cup {RecDir(slot) : slot \in Slots}
                 \cup {OebinPath(slot) : slot \in Slots}

\* "Record Node" in name, for the folder names of the model
RecordNodeNames == NodeNames \cup {"Record Node 0", "Record Node 1", "Record Node test"}
HasRecordNode(name) == name \in RecordNodeNames
\* "Record Node".lower() in name.lower()
HasRecordNodeLower(name) == name \in RecordNodeNames \cup {"record node 0"}

\* get_ephys_root(path): path.parents runs from the nearest parent up to the
\* anchor and leaves out the path itself; the parent SubSeq(path, 1, k) has
\* the name path[k]
get_ephys_root(path) ==
    IF ~\E k \in 1..Len(path) : HasRecordNode(path[k])
    THEN [kind |-> "raise", exc |-> "ValueError"]
    ELSE LET matching == {k \in 1..(Len(path) - 1) : HasRecordNodeLower(path[k])}
         IN  IF matching = {}
             \* next() of an exhausted generator expression
             THEN [kind |-> "raise", exc |-> "StopIteration"]
             ELSE LET nearest == CHOOSE k \in matching : \A m \in matching : m <= k
                  IN  [kind |-> "return", value |-> SubSeq(path, 1, nearest - 1)]

\* any(k in f.as_posix().lower() for k in ["sorted", "extracted", "curated"]),
\* for the folder names of the model
IsProcessed(path) ==
    \E k \in 1..Len(path) : path[k] \in {"sorted", "extracted", "curated"}

\* The set `subfolders` after the loop over path.rglob("continuous.dat")
DiscoveredRoots(recs, path) ==
    LET found == {DatPath(slot) : slot \in {s \in Present(recs) :
                                               IsParentOf(path, DatPath(s))}}
        roots == {get_ephys_root(f) : f \in {g \in found : ~IsProcessed(g)}}
    IN  IF \E r \in roots : r.kind = "raise"
        THEN CHOOSE r \in roots : r.kind = "raise"
        ELSE [kind |-> "return", value |-> {r.value : r \in roots}]

\* tuple(sorted(subfolders, key=str)): every continuous.dat of the tree lies
\* below a Record Node folder of Top, so the set holds one root at most
SortedRoots(subfolders) ==
    IF subfolders = {} THEN <<>> ELSE <<CHOOSE s \in subfolders : TRUE>>

\* get_raw_ephys_subfolders(path, min_size_gb); the sizes of the tree are
\* counted in units of 1024**3 bytes
get_raw_ephys_subfolders(recs, path, min_size_gb) ==
    LET discovered == DiscoveredRoots(recs, path)
    IN  IF discovered.kind = "raise"
        THEN discovered
        ELSE LET subfolders ==
                     IF min_size_gb # None
                     THEN {s \in discovered.value :
                               GetSize(recs, s) < min_size_gb.value}
                     ELSE discovered.value
             IN  [kind |-> "return", value |-> SortedRoots(subfolders)]

\* The paths get_ephys_root is called with
RootPaths == {<<"A:", "test", "Record Node 0", "Record Node test">>,
              <<"A:", "test", "Record Node 0">>,
              <<"A:", "test", "data">>,
              <<"A:", "Record Node 0", "Record Node 1", "data">>,
              <<"A:", "record node 0", "data">>,
              <<"A:", "record node 0", "Record Node 1">>}
                 \cup {DatPath(slot) : slot \in Slots}
                 \cup {NodeDir(n) : n \in NodeNames}
\* The values of min_size_gb
MinSizes == {None} \cup {[kind |-> "number", value |-> v] : v \in {1, 4}}

Permutations4(S) ==
    {o \in [1..4 -> S] : \A i, j \in 1..4 : i # j => o[i] # o[j]}

TopoIdle ==
    /\ topo_recs = <<>>
    /\ topo_order = <<>>
    /\ topo_call = None
    /\ topo_result = None

TopoInit ==
    /\ topo_recs \in {r \in [Slots -> [present : BOOLEAN, size : 0..MaxSize]] :
                        \A slot \in Slots : ~r[slot].present => r[slot].size = 0}
    /\ topo_order \in Permutations4(Slots)
    /\ topo_call = None
    /\ topo_result = None

\* The calls read the tree and leave it as it is: each is modelled as made
\* once, on the tree as scanned.
\* get_single_oebin_path(path)
SelectManifest ==
    \E path \in TopoPaths :
        /\ topo_call = None
        /\ topo_call' = [op |-> "get_single_oebin_path", path |-> path]
        /\ topo_result' = get_single_oebin_path(topo_recs, topo_order, path)
        /\ UNCHANGED <<topo_recs, topo_order>>
        /\ UNCHANGED topoOthers

\* get_superfluous_oebin_paths(path)
Superfluous ==
    \E path \in TopoPaths :
        /\ topo_call = None
        /\ topo_call' = [op |-> "get_superfluous_oebin_paths", path |-> path]
        /\ topo_result' = get_superfluous_oebin_paths(topo_recs, topo_order, path)
        /\ UNCHANGED <<topo_recs, topo_order>>
        /\ UNCHANGED topoOthers

\* list(get_filtered_ephys_paths_relative_to_record_node_parents(Top))
EnumerateKept ==
    /\ topo_call = None
    /\ topo_call' = [op |-> "get_filtered_ephys_paths", path |-> Top]
    /\ topo_result' = get_filtered_ephys_paths(topo_recs, topo_order,
                                               RglobRecordNodes(topo_order))
    /\ UNCHANGED <<topo_recs, topo_order>>
    /\ UNCHANGED topoOthers

\* get_ephys_root(path)
GetRoot ==
    \E path \in RootPaths :
        /\ topo_call = None
        /\ topo_call' = [op |-> "get_ephys_root", path |-> path]
        /\ topo_result' = get_ephys_root(path)
        /\ UNCHANGED <<topo_recs, topo_order>>
        /\ UNCHANGED topoOthers

\* get_raw_ephys_subfolders(path, min_size_gb)
RawSubfolders ==
    \E path \in {Top} \cup {NodeDir(n) : n \in NodeNames}, min_size_gb \in MinSizes :
        /\ topo_call = None
        /\ topo_call' = [op |-> "get_raw_ephys_subfolders", path |-> path,
                         min_size_gb |-> min_size_gb]
        /\ topo_result' = get_raw_ephys_subfolders(topo_recs, path, min_size_gb)
        /\ UNCHANGED <<topo_recs, topo_order>>
        /\ UNCHANGED topoOthers

TopoNext ==
    SelectManifest \/ Superfluous \/ EnumerateKept \/ GetRoot \/ RawSubfolders

(***************************************************************************)
(* get_merged_oebin_file and assert_xml_files_match                        *)
(***************************************************************************)
\* Two structure.oebin files of a recording split over drives A: and B:, and
\* a file that is not an .oebin file
OebinA == <<"A", "Record Node 101", "experiment1", "recording1", "structure.oebin">>
OebinB == <<"B", "Record Node 102", "experiment1", "recording1", "structure.oebin">>
NotOebin == <<"A", "Record Node 101", "experiment1", "recording1", "structure.json">>
MergePaths == {OebinA, OebinB, NotOebin}

\* p.suffix
Suffix(path) ==
    IF path[Len(path)] = "structure.oebin" THEN ".oebin" ELSE ".json"

\* o.parent.parent.parent / "settings.xml"
SettingsPath(oebin) == Parent(Parent(Parent(oebin))) \o <<"settings.xml">>

\* sorted(oebin_paths): paths compare by their parts; the paths of the model
\* differ in the drive
PathKey(path) == IF path[1] = "A" THEN 1 ELSE 2
RECURSIVE Sorted(_)
Sorted(paths) ==
    IF paths = <<>> THEN <<>>
    ELSE LET rest == Sorted(Tail(paths))
             before == SelectSeq(rest, LAMBDA q : PathKey(q) < PathKey(Head(paths)))
             after == SelectSeq(rest, LAMBDA q : PathKey(q) >= PathKey(Head(paths)))
         IN  before \o <<Head(paths)>> \o after

\* The keys of a structure.oebin file, in file order
Categories == <<"continuous", "events", "spikes">>

\* Stream descriptors
Descriptor(folder_name) == [folder_name |-> folder_name, num_channels |-> 384]
StreamA == Descriptor(<<"P", "A", "/">>)
StreamAL == Descriptor(<<"P", "A", "-", "L", "/">>)
StreamB == Descriptor(<<"P", "B", "/">>)

\* get_oebin_data(path): the parsed file
OebinContents ==
    [continuous : {<<>>, <<StreamA>>, <<StreamA, StreamAL>>, <<StreamB>>,
                   <<StreamA, StreamA>>},
     events : {<<>>, <<StreamA>>},
     spikes : {<<>>}]

\* npc_io.checksums_match(*paths): the files have the same bytes
checksums_match(files) == \A k \in 1..Len(files) : files[k] = files[1]

\* npc_ephys.settings_xml.get_settings_xml_data(p): the parsed settings,
\* which compare equal when they differ in the date only
get_settings_xml_data(file) == [hostname |-> file.hostname]

\* Faulty variant: files whose checksums differ do not match
assert_xml_files_match_checksum_only(settings, paths) ==
    IF \E k \in 1..Len(paths) : ~settings[paths[k]].exists
    THEN "FileNotFoundError"
    ELSE IF ~checksums_match([k \in 1..Len(paths) |-> settings[paths[k]]])
    THEN "AssertionError"
    ELSE "None"

\* assert_xml_files_match(*path): the exception raised, or "None".  Every
\* path of the model ends in settings.xml, so the suffix test passes.
assert_xml_files_match(settings, paths) ==
    IF \E k \in 1..Len(paths) : ~settings[paths[k]].exists
    THEN "FileNotFoundError"
    ELSE IF ~checksums_match([k \in 1..Len(paths) |-> settings[paths[k]]])
    THEN LET data == [k \in 1..Len(paths) |-> get_settings_xml_data(settings[paths[k]])]
         IN  IF \E k \in 1..Len(data) : data[k] # data[1]
             THEN "AssertionError"
             ELSE "None"
    ELSE "None"

\* merged_oebin.get(key, [])
GetList(merged, key) == IF key \in DOMAIN merged THEN merged[key] ELSE <<>>

\* item in list
InList(item, list) == \E k \in 1..Len(list) : list[k] = item

\* exclude_probe_names and any(p.lower() in item.get("folder_name", "").lower() ...)
Excluded(exclude, item) ==
    /\ exclude # None
    /\ \E k \in 1..Len(exclude.value) :
          Contains(Lower(exclude.value[k]), Lower(item.folder_name))

\* for item in oebin_data[key]: ...
RECURSIVE MergeItems(_, _, _, _)
MergeItems(merged, key, items, exclude) ==
    IF items = <<>> THEN merged
    ELSE LET item == Head(items)
             next == IF InList(item, GetList(merged, key)) \/ Excluded(exclude, item)
                     THEN merged
                     ELSE [k \in (DOMAIN merged) \cup {key} |->
                              IF k = key THEN Append(GetList(merged, key), item)
                              ELSE merged[k]]
         IN  MergeItems(next, key, Tail(items), exclude)

\* for key in oebin_data: ...
RECURSIVE MergeKeys(_, _, _, _)
MergeKeys(merged, oebin_data, keys, exclude) ==
    IF keys = <<>> THEN merged
    ELSE LET key == Head(keys)
             next == IF key \in DOMAIN merged /\ merged[key] = oebin_data[key]
                     THEN merged
                     ELSE MergeItems(merged, key, oebin_data[key], exclude)
         IN  MergeKeys(next, oebin_data, Tail(keys), exclude)

\* for oebin_path in <the paths, in the order given>: ...
RECURSIVE MergeFiles(_, _, _, _)
MergeFiles(merged, data, oebin_paths, exclude) ==
    IF oebin_paths = <<>> THEN merged
    ELSE MergeFiles(MergeKeys(merged, data[Head(oebin_paths)], Categories, exclude),
                    data, Tail(oebin_paths), exclude)

\* get_merged_oebin_file(paths, exclude_probe_names)
get_merged_oebin_file(data, settings, oebin_paths, exclude) ==
    IF Len(oebin_paths) = 1
    THEN [kind |-> "return", value |-> data[oebin_paths[1]]]
    ELSE IF \E k \in 1..Len(oebin_paths) : Suffix(oebin_paths[k]) # ".oebin"
    THEN [kind |-> "raise", exc |-> "ValueError"]
    ELSE
    LET xml == assert_xml_files_match(
                   settings, [k \in 1..Len(oebin_paths) |-> SettingsPath(oebin_paths[k])])
        merged_oebin == MergeFiles(<<>>, data, Sorted(oebin_paths), exclude)
    IN  IF xml # "None"
        THEN [kind |-> "raise", exc |-> xml]
        ELSE IF DOMAIN merged_oebin = {}
        THEN [kind |-> "raise", exc |-> "ValueError"]
        ELSE [kind |-> "return", value |-> merged_oebin]

SettingsFiles == [exists : {TRUE}, hostname : {"rig1", "rig2"}, date : {1, 2}]
                     \cup {[exists |-> FALSE, hostname |-> "", date |-> 0]}

MergeExcludes == {None, [kind |-> "list", value |-> <<<<"P", "A">>>>],
                  [kind |-> "list", value |-> <<<<"B">>, <<"L">>>>]}

MergeIdle ==
    /\ merge_data = <<>>
    /\ merge_settings = <<>>
    /\ merge_call = None
    /\ merge_result = None

\* The settings.xml of drive A: is there; the one of drive B: is any file.
MergeInit ==
    /\ merge_data \in {d \in [MergePaths -> OebinContents] : d[NotOebin] = d[OebinA]}
    /\ merge_settings \in
          {f \in [{SettingsPath(OebinA), SettingsPath(OebinB)} -> SettingsFiles] :
              f[SettingsPath(OebinA)] = [exists |-> TRUE, hostname |-> "rig1", date |-> 1]}
    /\ merge_call = None
    /\ merge_result = None

\* get_merged_oebin_file(paths, exclude_probe_names).  The call reads the
\* files and leaves them as they are: it is modelled as made once.
Merge ==
    \E paths \in SeqsUpTo(MergePaths, MaxPaths) \ {<<>>}, exclude \in MergeExcludes :
        /\ merge_call = None
        /\ merge_call' = [paths |-> paths, exclude |-> exclude]
        /\ merge_result' = get_merged_oebin_file(merge_data, merge_settings,
                                                 paths, exclude)
        /\ UNCHANGED <<merge_data, merge_settings>>
        /\ UNCHANGED mergeOthers

MergeNext == Merge

(***************************************************************************)
(* get_ephys_timing_on_sync                                                *)
(***************************************************************************)
\* Floating-point values: finite numbers, NaN and the two infinities
Finite(n) == [kind |-> "finite", value |-> n]
NaN == [kind |-> "nan"]
PosInf == [kind |-> "inf"]
NegInf == [kind |-> "-inf"]

\* np.isnan(x), np.isfinite(x), -x
IsNan(x) == x.kind = "nan"
IsFinite(x) == x.kind = "finite"
Neg(x) ==
    CASE x.kind = "finite" -> Finite(0 - x.value)
      [] x.kind = "inf" -> NegInf
      [] x.kind = "-inf" -> PosInf
      [] OTHER -> x

\* What npc_ephys.barcodes.extract_barcodes_from_times and
\* get_probe_time_offset may do for a device: raise, or return
\* (timeshift, sampling_rate, _)
EstimatorOutcomes ==
    {[kind |-> "raise"]}
        \cup [kind : {"return"},
              timeshift : {Finite(-20), Finite(3), NaN},
              sampling_rate : {Finite(30001), Finite(2499), NaN, PosInf, NegInf}]

\* Faulty variant: only a NaN rate falls back to the nominal rate
SyncLoopBody_nan_only(info, estimate) ==
    IF estimate.kind = "raise"
    THEN [kind |-> "raise", exc |-> "Exception"]
    ELSE LET timeshift == estimate.timeshift
             start_time == Neg(timeshift)
             sampling_rate == IF IsNan(estimate.sampling_rate)
                              THEN info.sampling_rate
                              ELSE estimate.sampling_rate
         IN  [kind |-> "yield",
              value |-> [device |-> info.device,
                         sampling_rate |-> sampling_rate,
                         start_time |-> start_time]]

\* One pass of the loop "for info in devices": the estimator is called, and
\* its answer is turned into the value yielded.
SyncLoopBody(info, estimate) ==
    IF estimate.kind = "raise"
    THEN [kind |-> "raise", exc |-> "Exception"]
    ELSE LET timeshift == estimate.timeshift
             start_time == Neg(timeshift)
             sampling_rate == IF IsNan(estimate.sampling_rate)
                                    \/ ~IsFinite(estimate.sampling_rate)
                              THEN info.sampling_rate
                              ELSE estimate.sampling_rate
         IN  [kind |-> "yield",
              value |-> [device |-> info.device,
                         sampling_rate |-> sampling_rate,
                         start_time |-> start_time]]

\* The EphysTimingInfoOnPXI values passed as devices
SyncInfos == {[device |-> DevA, sampling_rate |-> Finite(30000)],
              [device |-> DevAL, sampling_rate |-> Finite(2500)]}

SyncIdle ==
    /\ sync_devices = <<>>
    /\ sync_pos = 0
    /\ sync_gen = "closed"
    /\ sync_est = <<>>
    /\ sync_out = <<>>
    /\ sync_last = None
    /\ sync_retry = FALSE

SyncInit ==
    /\ sync_devices \in SeqsUpTo(SyncInfos, MaxDevices) \ {<<>>}
    /\ sync_pos = 0
    /\ sync_gen = "suspended"
    /\ sync_est = <<>>
    /\ sync_out = <<>>
    /\ sync_last = None
    /\ sync_retry = FALSE

\* next(generator): a closed generator raises StopIteration; a suspended one
\* takes the next device, and yields, or lets the estimator's error out and
\* is closed by it.
SyncNext ==
    /\ IF sync_gen = "closed" \/ sync_pos >= Len(sync_devices)
       THEN /\ sync_last' = [kind |-> "StopIteration"]
            /\ sync_gen' = "closed"
            /\ UNCHANGED <<sync_pos, sync_est, sync_out>>
       ELSE \E estimate \in EstimatorOutcomes :
                LET r == SyncLoopBody(sync_devices[sync_pos + 1], estimate)
                IN  /\ sync_pos' = sync_pos + 1
                    /\ sync_est' = Append(sync_est, estimate)
                    /\ sync_gen' = GeneratorAfter(r.kind)
                    /\ sync_out' = IF r.kind = "yield"
                                   THEN Append(sync_out, [index |-> sync_pos + 1,
                                                          info |-> r.value])
                                   ELSE sync_out
                    /\ sync_last' = IF r.kind = "yield"
                                    THEN [kind |-> "yield"]
                                    ELSE [kind |-> "raise", exc |-> r.exc]
    /\ UNCHANGED <<sync_devices, sync_retry>>
    /\ UNCHANGED syncOthers

\* The caller, having caught the error of a device, calls
\* get_ephys_timing_on_sync(sync, devices=<the devices after it>): a new
\* generator.
SyncCallAgain ==
    /\ ~sync_retry
    /\ sync_last.kind = "raise"
    /\ sync_pos < Len(sync_devices)
    /\ sync_devices' = SubSeq(sync_devices, sync_pos + 1, Len(sync_devices))
    /\ sync_pos' = 0
    /\ sync_gen' = "suspended"
    /\ sync_est' = <<>>
    /\ sync_out' = <<>>
    /\ sync_last' = None
    /\ sync_retry' = TRUE
    /\ UNCHANGED syncOthers

SyncStep == SyncNext \/ SyncCallAgain
(***************************************************************************)
(* validate_recording_folder                                               *)
(***************************************************************************)
\* str.strip("/")
RECURSIVE StripSlash(_)
StripSlash(s) ==
    IF s = <<>> THEN s
    ELSE IF Head(s) = "/" THEN StripSlash(Tail(s))
    ELSE IF s[Len(s)] = "/" THEN StripSlash(SubSeq(s, 1, Len(s) - 1))
    ELSE s

\* The try block around next(get_ephys_timing_on_pxi(recording_path,
\* only_devices_including=device_name)): the info found, or the exception
\* that leaves validate_recording_folder
validate_find(dir, lines, fs, listing, folder_name) ==
    LET device_name == StripSlash(folder_name)
        r == get_ephys_timing_on_pxi(dir, lines, fs, listing,
                                     [kind |-> "str", value |-> device_name], 0)
    IN  CASE r.kind = "yield" ->
                 [kind |-> "found", info |-> r.value, next |-> r.kind]
          [] r.kind = "StopIteration" ->
                 [kind |-> "raise", exc |-> "AssertionError",
                  device |-> device_name, next |-> r.kind]
          \* only StopIteration is caught
          [] OTHER ->
                 [kind |-> "raise", exc |-> r.exc,
                  device |-> device_name, next |-> r.kind]

\* Faulty variant: a failure of the reconciliation is passed over
validate_sync_lenient(info, estimate) ==
    [kind |-> "verified", next |-> "yield"]

\* The try block around next(get_ephys_timing_on_sync(sync, devices=(info,)))
validate_sync(info, estimate) ==
    LET r == SyncLoopBody([device |-> info.name,
                           sampling_rate |-> Finite(info.sampling_rate)],
                          estimate)
    IN  IF r.kind = "raise"
        \* except Exception as exc: raise AssertionError(...) from exc
        THEN [kind |-> "raise", exc |-> "AssertionError",
              device |-> info.name, next |-> r.kind]
        ELSE [kind |-> "verified", next |-> r.kind]

\* The device lines of a recording whose log agrees with its files
ValLines == {[label |-> l, start |-> DiskFirst(l), rate |-> LogRate(l)] : l \in Labels}
\* folder_name of the entries of structure.oebin["continuous"]
ValFolderNames == {Append(l, "/") : l \in Labels}

ValIdle ==
    /\ val_dir = <<>>
    /\ val_lines = <<>>
    /\ val_fs = <<>>
    /\ val_listing = {}
    /\ val_oebin = <<>>
    /\ val_sync = FALSE
    /\ val_idx = 0
    /\ val_pc = "returned"
    /\ val_info = None
    /\ val_log = <<>>
    /\ val_result = None

ValInit ==
    /\ val_dir \in {DirClipped, DirRaw}
    /\ val_lines \in SeqsUpTo(ValLines, MaxLines)
    /\ val_fs \in [Labels -> [continuous : BOOLEAN, ttl : BOOLEAN]]
    /\ val_listing \in PxiListings
    /\ val_oebin \in SeqsUpTo(ValFolderNames, MaxDevices)
    /\ val_sync \in BOOLEAN
    /\ val_idx = 0
    /\ val_pc = "find"
    /\ val_info = None
    /\ val_log = <<>>
    /\ val_result = None

\* One entry of the for loop, up to the end of the first try statement
ValFind ==
    /\ val_pc = "find"
    /\ val_idx < Len(val_oebin)
    /\ \E r \in {validate_find(val_dir, val_lines, val_fs, val_listing,
                                val_oebin[val_idx + 1])} :
           /\ val_log' = Append(val_log,
                                [call |-> "get_ephys_timing_on_pxi",
                                 entry |-> val_idx + 1,
                                 next |-> r.next,
                                 device |-> IF r.kind = "found"
                                            THEN r.info.name ELSE <<>>])
           /\ IF r.kind = "found"
              THEN /\ val_info' = r.info
                   /\ val_pc' = "found"
                   /\ UNCHANGED val_result
              ELSE /\ val_result' = [kind |-> "raise", exc |-> r.exc,
                                     device |-> r.device]
                   /\ val_pc' = "raised"
                   /\ UNCHANGED val_info
    /\ UNCHANGED <<val_dir, val_lines, val_fs, val_listing, val_oebin, val_sync,
                   val_idx>>
    /\ UNCHANGED valOthers

\* if sync: the second try statement, for the info in hand
ValReconcile ==
    /\ val_pc = "found"
    /\ val_sync
    /\ \E estimate \in EstimatorOutcomes :
          \E r \in {validate_sync(val_info, estimate)} :
              /\ val_log' = Append(val_log,
                                   [call |-> "get_ephys_timing_on_sync",
                                    entry |-> val_idx + 1,
                                    next |-> IF estimate.kind = "raise"
                                             THEN "raise" ELSE "yield",
                                    device |-> val_info.name])
              /\ IF r.kind = "verified"
                 THEN /\ val_idx' = val_idx + 1
                      /\ val_pc' = "find"
                      /\ val_info' = None
                      /\ UNCHANGED val_result
                 ELSE /\ val_result' = [kind |-> "raise", exc |-> r.exc,
                                        device |-> r.device]
                      /\ val_pc' = "raised"
                      /\ UNCHANGED <<val_idx, val_info>>
    /\ UNCHANGED <<val_dir, val_lines, val_fs, val_listing, val_oebin, val_sync>>
    /\ UNCHANGED valOthers

\* Without sync the entry is done once its info is found
ValAccept ==
    /\ val_pc = "found"
    /\ ~val_sync
    /\ val_idx' = val_idx + 1
    /\ val_pc' = "find"
    /\ val_info' = None
    /\ UNCHANGED <<val_dir, val_lines, val_fs, val_listing, val_oebin, val_sync,
                   val_log, val_result>>
    /\ UNCHANGED valOthers

\* The for loop ends: validate_recording_folder returns None
ValReturn ==
    /\ val_pc = "find"
    /\ val_idx = Len(val_oebin)
    /\ val_pc' = "returned"
    /\ val_result' = [kind |-> "return"]
    /\ UNCHANGED <<val_dir, val_lines, val_fs, val_listing, val_oebin, val_sync,
                   val_idx, val_info, val_log>>
    /\ UNCHANGED valOthers

ValNext == ValFind \/ ValReconcile \/ ValAccept \/ ValReturn

----------------------------------------------------------------------------
(***************************************************************************)
(* Specifications                                                          *)
(***************************************************************************)
InitNpy == NpyInit /\ PxiIdle /\ TopoIdle /\ MergeIdle /\ SyncIdle /\ ValIdle
SpecNpy == InitNpy /\ [][NpyNext]_vars

InitPxi == PxiInit /\ NpyIdle /\ TopoIdle /\ MergeIdle /\ SyncIdle /\ ValIdle
SpecPxi == InitPxi /\ [][PxiNext]_vars

InitTopo == TopoInit /\ NpyIdle /\ PxiIdle /\ MergeIdle /\ SyncIdle /\ ValIdle
SpecTopo == InitTopo /\ [][TopoNext]_vars

InitMerge == MergeInit /\ NpyIdle /\ PxiIdle /\ TopoIdle /\ SyncIdle /\ ValIdle
SpecMerge == InitMerge /\ [][MergeNext]_vars

InitSync == SyncInit /\ NpyIdle /\ PxiIdle /\ TopoIdle /\ MergeIdle /\ ValIdle
SpecSync == InitSync /\ [][SyncStep]_vars

InitValidate == ValInit /\ NpyIdle /\ PxiIdle /\ TopoIdle /\ MergeIdle /\ SyncIdle
SpecValidate == InitValidate /\ [][ValNext]_vars

----------------------------------------------------------------------------
(***************************************************************************)
(* C1: for every valid 1-D array in the container format, with either      *)
(* header-length width, read_array_range_from_npy(obj, slice(i, j))        *)
(* returns exactly full_array[i:j], and a version-1 container and a        *)
(* version-2 container of the same content give the same result.           *)
(***************************************************************************)
C1_ReadRangeIsSlice ==
    (npy_range # None /\ Len(npy_array.shape) = 1) =>
        LET i == npy_range.start
            j == npy_range.stop
            other == IF npy_major = 1 THEN 2 ELSE 1
            twin == NpySave(other, npy_array.itemsize, npy_array.shape,
                            npy_array.pad, npy_array.value)
        IN  /\ npy_result = [kind |-> "array",
                             value |-> SubSeq(npy_array.value, i + 1, j)]
            /\ read_array_range_from_npy(twin, i, j) = npy_result

\* A version-1 object and a version-2 object have each been read over a
\* non-empty proper range of a multi-byte array.
C1_Witness_V1 ==
    /\ npy_range = [kind |-> "slice", start |-> 1, stop |-> 3] /\ npy_major = 1 /\ npy_array.itemsize = 2
    /\ Len(npy_array.shape) = 1 /\ Len(npy_array.value) = 3
    /\ npy_result.kind = "array" /\ Len(npy_result.value) = 2

----------------------------------------------------------------------------
\* The device the generator took last, and whether the call selects it
PxiDevices == SyncMessagesKeys(pxi_lines)
PxiSelected(device) ==
    pxi_filter = None \/ pxi_filter.value = <<>>
        \/ Contains(Lower(pxi_filter.value), Lower(device))
PxiFound(device) == clipped_path_to_compressed(pxi_dir, device, pxi_listing)

(***************************************************************************)
(* C2: a device of the acquisition log whose continuous folder exists but  *)
(* which has no TTL* folder under its events folder is skipped: the        *)
(* generator does not raise, and every other selected device that has a    *)
(* continuous folder and a TTL folder is yielded.  Stated for recordings   *)
(* where looking up the compressed store cannot fail, so that only the     *)
(* missing TTL folder is in play.                                          *)
(***************************************************************************)
C2_MissingTtlIsSkipped ==
    (/\ pxi_gen = "closed"
     /\ \A d \in Labels : PxiFound(d).kind = "raise" => PxiFound(d).exc = "ValueError")
    =>
    /\ pxi_last.kind # "raise"
    /\ \A i \in 1..Len(PxiDevices) :
          (/\ PxiSelected(PxiDevices[i])
           /\ pxi_fs[PxiDevices[i]].continuous
           /\ pxi_fs[PxiDevices[i]].ttl)
          => \E k \in 1..Len(pxi_out) : pxi_out[k].name = PxiDevices[i]

(***************************************************************************)
(* C3: when no compressed store is located for a device that is otherwise  *)
(* complete (path not under the clipped root, name not parseable, store    *)
(* name not in the listing of the compressed root), the device is yielded  *)
(* with compressed = None and no error reaches the caller.                 *)
(***************************************************************************)
C3_MissingCompressedIsNotFatal ==
    (/\ pxi_last.kind \in {"yield", "raise"}
     /\ PxiSelected(PxiDevices[pxi_pos])
     /\ pxi_fs[PxiDevices[pxi_pos]].continuous
     /\ pxi_fs[PxiDevices[pxi_pos]].ttl
     /\ PxiFound(PxiDevices[pxi_pos]).kind = "raise"
     /\ PxiFound(PxiDevices[pxi_pos]).exc \in {"ValueError", "FileNotFoundError"})
    =>
    /\ pxi_last.kind = "yield"
    /\ pxi_out[Len(pxi_out)].name = PxiDevices[pxi_pos]
    /\ pxi_out[Len(pxi_out)].compressed = None

----------------------------------------------------------------------------
\* The manifests under the path of the last call, and their folders' sizes
TopoManifests == RglobOebin(topo_recs, topo_order, topo_call.path)
TopoPosition(oebin) == CHOOSE k \in 1..Len(TopoManifests) : TopoManifests[k] = oebin

(***************************************************************************)
(* C4: get_single_oebin_path returns the single manifest when exactly one  *)
(* exists under the path; with N >= 2 it returns the manifest whose folder *)
(* has the largest total size, the first met among equals; and             *)
(* get_superfluous_oebin_paths then returns exactly the other N - 1        *)
(* manifests, never the authoritative one.                                 *)
(***************************************************************************)
C4_AuthoritativeManifest ==
    /\ (/\ topo_call # None
        /\ topo_call.op = "get_single_oebin_path"
        /\ IsDir(topo_recs, topo_call.path)
        /\ Len(TopoManifests) >= 1)
       =>
       /\ topo_result.kind = "return"
       /\ \E k \in 1..Len(TopoManifests) : topo_result.value = TopoManifests[k]
       /\ Len(TopoManifests) = 1 => topo_result.value = TopoManifests[1]
       /\ \A k \in 1..Len(TopoManifests) :
             LET mine == GetSize(topo_recs, Parent(topo_result.value))
                 other == GetSize(topo_recs, Parent(TopoManifests[k]))
             IN  /\ other <= mine
                 /\ other = mine => TopoPosition(topo_result.value) <= k
    /\ (/\ topo_call # None
        /\ topo_call.op = "get_superfluous_oebin_paths"
        /\ IsDir(topo_recs, topo_call.path)
        /\ Len(TopoManifests) >= 1)
       =>
       LET single == get_single_oebin_path(topo_recs, topo_order, topo_call.path)
       IN  /\ topo_result.kind = "return"
           /\ single.value \notin topo_result.value
           /\ Cardinality(topo_result.value) = Len(TopoManifests) - 1
           /\ \A k \in 1..Len(TopoManifests) :
                 TopoManifests[k] # single.value => TopoManifests[k] \in topo_result.value

\* Three manifests under a node, the two largest folders of equal size and the
\* second-met of all chosen; and two manifests reported superfluous.
C4_Witness_Tie ==
    /\ topo_call # None
    /\ topo_call.op = "get_single_oebin_path"
    /\ Len(TopoManifests) = 3
    /\ topo_result.kind = "return"
    /\ TopoPosition(topo_result.value) = 2
    /\ GetSize(topo_recs, Parent(TopoManifests[3]))
           = GetSize(topo_recs, Parent(topo_result.value))

(***************************************************************************)
(* C5: for every record node under the top folder,                         *)
(* get_filtered_ephys_paths_relative_to_record_node_parents never yields a *)
(* path that lies under a superfluous recording folder of that node, and   *)
(* the relative path of every yielded pair begins with the node folder's   *)
(* name.                                                                   *)
(***************************************************************************)
C5_KeptPathsExcludeSuperfluous ==
    (topo_call # None /\ topo_call.op = "get_filtered_ephys_paths") =>
        \A pair \in topo_result.yielded :
            \E n \in NodeNames :
                /\ IsParentOf(NodeDir(n), pair.abs)
                /\ pair.rel[1] = n
                /\ Parent(NodeDir(n)) \o pair.rel = pair.abs
                /\ \A slot \in Present(topo_recs) :
                      (/\ slot[1] = n
                       /\ OebinPath(slot) #
                            get_single_oebin_path(topo_recs, topo_order, NodeDir(n)).value)
                      => ~IsParentOf(RecDir(slot), pair.abs)

\* A node with a superfluous recording folder has been enumerated, and paths
\* of its authoritative folder were yielded.
C5_Witness_Excluded ==
    /\ topo_call # None
    /\ topo_call.op = "get_filtered_ephys_paths"
    /\ topo_result.exc = "None"
    /\ Cardinality({slot \in Present(topo_recs) : slot[1] = "Record Node 101"}) = 3
    /\ \E pair \in topo_result.yielded : Len(pair.abs) = 7

----------------------------------------------------------------------------
\* The descriptors of a result, per category, as sets; an error has none
DescriptorSets(result) ==
    IF result.kind = "raise" THEN [kind |-> "raise"]
    ELSE [kind |-> "return",
          sets |-> [c \in {"continuous", "events", "spikes"} |->
                       LET list == GetList(result.value, c)
                       IN  {list[k] : k \in 1..Len(list)}]]

MergeOf(paths) ==
    get_merged_oebin_file(merge_data, merge_settings, paths, merge_call.exclude)

(***************************************************************************)
(* C6: with identical settings files, get_merged_oebin_file yields the     *)
(* same set of descriptors per category for every ordering of the same     *)
(* paths, and merging a manifest with an identical copy of itself yields   *)
(* the same descriptors as merging it once.  The second part is stated for *)
(* a manifest that holds at least one descriptor and whose settings file   *)
(* exists.                                                                 *)
(***************************************************************************)
C6_MergeOrderAndIdempotence ==
    merge_call # None =>
        LET paths == merge_call.paths
        IN  /\ \A i, j \in 1..Len(paths) :
                  LET swapped == [k \in 1..Len(paths) |->
                                     IF k = i THEN paths[j]
                                     ELSE IF k = j THEN paths[i] ELSE paths[k]]
                  IN  DescriptorSets(MergeOf(swapped)) = DescriptorSets(merge_result)
            /\ (/\ Len(paths) = 1
                /\ Suffix(paths[1]) = ".oebin"
                /\ merge_settings[SettingsPath(paths[1])].exists
                /\ \E c \in DOMAIN merge_data[paths[1]] :
                       merge_data[paths[1]][c] # <<>>) =>
                  DescriptorSets(MergeOf(<<paths[1], paths[1]>>))
                      = DescriptorSets(merge_result)

(***************************************************************************)
(* C7: every result get_merged_oebin_file returns, for one path or several *)
(* and with any exclusion list, has no two equal descriptors in a category *)
(* and no descriptor whose folder name contains an excluded name, letter   *)
(* case aside.                                                             *)
(***************************************************************************)
C7_MergedMetadataInvariant ==
    (merge_call # None /\ merge_result.kind = "return") =>
        \A c \in DOMAIN merge_result.value :
            LET list == merge_result.value[c]
            IN  /\ \A i, j \in 1..Len(list) : i # j => list[i] # list[j]
                /\ \A i \in 1..Len(list) : ~Excluded(merge_call.exclude, list[i])

\* The settings files of the paths of the last call
MergeSettingsOf(k) == merge_settings[SettingsPath(merge_call.paths[k])]

(***************************************************************************)
(* C8: given two or more manifests (.oebin paths whose settings files      *)
(* exist), when the settings differ in a field other than the creation     *)
(* date get_merged_oebin_file raises AssertionError (SettingsMismatch) and *)
(* returns nothing; settings that differ in the creation date only do not  *)
(* cause that error.                                                       *)
(***************************************************************************)
C8_SettingsMismatch ==
    (/\ merge_call # None
     /\ Len(merge_call.paths) >= 2
     /\ \A k \in 1..Len(merge_call.paths) :
           Suffix(merge_call.paths[k]) = ".oebin" /\ MergeSettingsOf(k).exists)
    =>
    IF \E i, j \in 1..Len(merge_call.paths) :
           MergeSettingsOf(i).hostname # MergeSettingsOf(j).hostname
    THEN merge_result = [kind |-> "raise", exc |-> "AssertionError"]
    ELSE ~(merge_result.kind = "raise" /\ merge_result.exc = "AssertionError")

\* Both cases of C8 have happened: a merge refused for a differing host
\* name, and a merge returned for settings that differ in the date only.
C8_Witness_Mismatch ==
    /\ merge_call # None
    /\ merge_call.paths = <<OebinB, OebinA>>
    /\ merge_settings[SettingsPath(OebinB)].hostname = "rig2"
    /\ merge_result = [kind |-> "raise", exc |-> "AssertionError"]
C8_Witness_DateOnly ==
    /\ merge_call # None
    /\ merge_call.paths = <<OebinB, OebinA>>
    /\ merge_settings[SettingsPath(OebinB)] = [exists |-> TRUE, hostname |-> "rig1", date |-> 2]
    /\ merge_result.kind = "return"

----------------------------------------------------------------------------
(***************************************************************************)
(* C9: after the reconciliation of one device has raised, a caller that    *)
(* catches the error can go on consuming the same generator and reaches    *)
(* every remaining device: the generator of get_ephys_timing_on_sync ends  *)
(* (StopIteration) only when every device passed to it has been taken.     *)
(***************************************************************************)
C9_CatchAndContinue ==
    sync_last.kind = "StopIteration" => sync_pos = Len(sync_devices)

\* C9 as amended: once the reconciliation of a device has raised, the
\* generator is finished: consuming it further gives StopIteration and no
\* further value, and the devices after the failed one are not taken by it.
C9_FailureEndsTheSequence ==
    [][(sync_last.kind = "raise" /\ sync_retry' = sync_retry)
          => (/\ sync_last' = sync_last \/ sync_last'.kind = "StopIteration"
              /\ sync_out' = sync_out
              /\ sync_pos' = sync_pos)]_vars

\* The first of two devices failed, the caller consumed the generator
\* further and got StopIteration with the second device never taken; and,
\* after a failure, a new call on the remaining device yielded it.
C9_Witness_Stopped ==
    /\ ~sync_retry /\ Len(sync_devices) = 2 /\ sync_pos = 1
    /\ sync_est[1].kind = "raise" /\ sync_last.kind = "StopIteration"
C9_Witness_NewCall ==
    /\ sync_retry /\ sync_last.kind = "yield" /\ Len(sync_out) = 1

(***************************************************************************)
(* C10: for every device for which the estimator returns, the value        *)
(* yielded has start_time = -timeshift and the estimator's sampling rate   *)
(* when that is finite and not NaN, the device's nominal rate otherwise;   *)
(* a NaN or non-finite rate raises nothing and leaves the generator able   *)
(* to yield the later devices.                                             *)
(***************************************************************************)
C10_ReconciledTiming ==
    /\ \A idx \in 1..Len(sync_est) :
          sync_est[idx].kind = "return" =>
              \E k \in 1..Len(sync_out) :
                  /\ sync_out[k].index = idx
                  /\ sync_out[k].info.device = sync_devices[idx].device
                  /\ sync_out[k].info.start_time = Neg(sync_est[idx].timeshift)
                  /\ sync_out[k].info.sampling_rate =
                        IF sync_est[idx].sampling_rate.kind = "finite"
                        THEN sync_est[idx].sampling_rate
                        ELSE sync_devices[idx].sampling_rate
    /\ sync_last.kind = "raise" => sync_est[sync_pos].kind = "raise"
    /\ (sync_pos >= 1 /\ sync_est[sync_pos].kind = "return"
           /\ sync_last.kind # "StopIteration")
          => (sync_last.kind = "yield" /\ sync_gen = "suspended")

\* A device whose estimated rate is infinite was yielded with its nominal
\* rate, and the device after it was yielded with a corrected rate.
C10_Witness_Fallback ==
    /\ Len(sync_out) = 2
    /\ sync_est[1].kind = "return" /\ sync_est[1].sampling_rate = PosInf
    /\ sync_out[1].info.sampling_rate = Finite(30000)
    /\ sync_out[2].info.sampling_rate = Finite(2499)
    /\ sync_out[2].info.start_time = Finite(20)

-----------------------------------------------------------------------------
\* C13: when get_raw_ephys_subfolders is called with a minimum size, every
\* root it returns has a subtree of at least that size and every discovered
\* root of at least that size is returned; without a minimum size all the
\* discovered roots are returned.
C13_MinSizeKeepsLargeRoots ==
    (/\ topo_call # None
     /\ topo_call.op = "get_raw_ephys_subfolders"
     /\ topo_result.kind = "return")
    => LET discovered == DiscoveredRoots(topo_recs, topo_call.path).value
           returned == {topo_result.value[k] : k \in 1..Len(topo_result.value)}
           min_size_gb == topo_call.min_size_gb
       IN  IF min_size_gb = None
           THEN returned = discovered
           ELSE /\ \A r \in returned : GetSize(topo_recs, r) >= min_size_gb.value
                /\ \A r \in discovered :
                       GetSize(topo_recs, r) >= min_size_gb.value => r \in returned

-----------------------------------------------------------------------------
\* C15: for a path with one or more components named like `Record Node*`,
\* get_ephys_root returns the parent of the first such component of the
\* path; for a path without such a component it raises ValueError and no
\* other error.
C15_RootIsParentOfFirstRecordNode ==
    (topo_call # None /\ topo_call.op = "get_ephys_root")
    => LET path == topo_call.path
           named == {k \in 1..Len(path) : path[k] \in RecordNodeNames}
       IN  IF named = {}
           THEN topo_result = [kind |-> "raise", exc |-> "ValueError"]
           ELSE LET first == CHOOSE k \in named : \A m \in named : k <= m
                IN  topo_result = [kind |-> "return",
                                   value |-> SubSeq(path, 1, first - 1)]

-----------------------------------------------------------------------------
-----------------------------------------------------------------------------
\* The device name of entry k of structure.oebin["continuous"], and whether
\* the name filter made from it selects a device
ValDeviceName(k) == StripSlash(val_oebin[k])
ValSelects(k, device) ==
    ValDeviceName(k) = <<>> \/ Contains(Lower(ValDeviceName(k)), Lower(device))

(***************************************************************************)
(* C11: validate_recording_folder follows the state machine of a           *)
(* recording.  It returns normally only if, for every entry of the         *)
(* manifest, a device was first found through the entry's name filter and  *)
(* then, with a reference clock, reconciled without error in the very next *)
(* step, or, without one, accepted with no reconciliation at all;          *)
(* reconciliation is attempted only for the device found in the step       *)
(* before; and a step that fails is the last step and leaves the call      *)
(* raising, so that a recording with a failed device never reaches the     *)
(* normal return.                                                          *)
(***************************************************************************)
C11_ValidatedOnlyAfterEveryDevicePassed ==
    /\ val_result.kind = "return"
          => \A k \in 1..Len(val_oebin) :
                \E i \in 1..Len(val_log) :
                    /\ val_log[i].call = "get_ephys_timing_on_pxi"
                    /\ val_log[i].entry = k
                    /\ val_log[i].next = "yield"
                    /\ ValSelects(k, val_log[i].device)
                    /\ IF val_sync
                       THEN /\ i < Len(val_log)
                            /\ val_log[i + 1] =
                                   [call |-> "get_ephys_timing_on_sync", entry |-> k,
                                    next |-> "yield", device |-> val_log[i].device]
                       ELSE \A j \in 1..Len(val_log) :
                                val_log[j].call # "get_ephys_timing_on_sync"
    /\ \A j \in 1..Len(val_log) :
          val_log[j].call = "get_ephys_timing_on_sync"
              => /\ j > 1
                 /\ val_log[j - 1] =
                        [call |-> "get_ephys_timing_on_pxi", entry |-> val_log[j].entry,
                         next |-> "yield", device |-> val_log[j].device]
    /\ \A j \in 1..Len(val_log) :
          val_log[j].next # "yield"
              => j = Len(val_log) /\ val_result.kind = "raise"
    /\ val_result.kind = "raise" => val_pc = "raised"

\* A recording of two different entries, with a reference clock, is validated
C11_Witness_Validated ==
    /\ val_result.kind = "return"
    /\ val_sync
    /\ Len(val_oebin) = 2
    /\ val_oebin[1] # val_oebin[2]
    /\ Len(val_log) = 4

\* A recording is invalid because the reconciliation of its second entry failed
C11_Witness_Invalid ==
    /\ val_result.kind = "raise"
    /\ Len(val_log) = 4
    /\ val_log[4].call = "get_ephys_timing_on_sync"

-----------------------------------------------------------------------------
\* C12: whenever validate_recording_folder fails while obtaining the device
\* of an entry or while reconciling a found device, the exception that
\* leaves it is an AssertionError naming that device, and no other class.
C12_FailuresAreAssertionErrors ==
    val_result.kind = "raise"
        => LET last == val_log[Len(val_log)]
           IN  /\ val_result.exc = "AssertionError"
               /\ val_result.device = IF last.call = "get_ephys_timing_on_pxi"
                                      THEN ValDeviceName(last.entry)
                                      ELSE last.device

-----------------------------------------------------------------------------
\* C16: the device found for an entry of the manifest is the device whose
\* name equals the entry's folder name without its slash; an entry is never
\* taken as found through another device whose name only contains that name.
C16_FoundDeviceIsTheNamesake ==
    \A i \in 1..Len(val_log) :
        (val_log[i].call = "get_ephys_timing_on_pxi" /\ val_log[i].next = "yield")
            => val_log[i].device = ValDeviceName(val_log[i].entry)

=============================================================================
